---- MODULE Spec2Model ----
(***************************************************************************)
(* Model of the voltage-divider calculator (src/src/main.rs and            *)
(* src/src/rc_param.rs): the resistor catalogue, the combination search    *)
(* with its tolerance propagation, and the ranking / filtering pipeline of *)
(* the entry routine.                                                      *)
(*                                                                         *)
(* Numbers.  The program computes in f64.  The model computes the same     *)
(* expressions, in the same order, over exact rationals [n, d] kept in     *)
(* lowest terms with d > 0.  Rounding of the binary floating point is not  *)
(* modelled; every comparison is decided exactly.                          *)
(***************************************************************************)
EXTENDS Integers, Sequences, FiniteSets

(***************************************************************************)
(* Exact rational arithmetic (stands for f64 +, -, *, / and comparisons).  *)
(***************************************************************************)
Abs(x) == IF x < 0 THEN -x ELSE x

RECURSIVE GCD(_, _)
GCD(a, b) == IF b = 0 THEN a ELSE GCD(b, a % b)

\* n/d in lowest terms, d > 0.  Requires d # 0.
Rat(n, d) ==
  LET g == GCD(Abs(n), Abs(d))
      s == IF d < 0 THEN -1 ELSE 1
  IN  [n |-> s * (n \div g), d |-> s * (d \div g)]

Int2Rat(i) == [n |-> i, d |-> 1]

Zero == Int2Rat(0)

One == Int2Rat(1)

AddRat(a, b) ==
  LET g == GCD(a.d, b.d)
  IN  Rat(a.n * (b.d \div g) + b.n * (a.d \div g), (a.d \div g) * b.d)

NegRat(a) == [n |-> -a.n, d |-> a.d]

SubRat(a, b) == AddRat(a, NegRat(b))

\* Cross-reduced before multiplying, so the result is in lowest terms.
MulRat(a, b) ==
  LET g1 == GCD(Abs(a.n), b.d)
      g2 == GCD(Abs(b.n), a.d)
  IN  [n |-> (a.n \div g1) * (b.n \div g2), d |-> (a.d \div g2) * (b.d \div g1)]

\* Requires b # 0 (the program would produce inf or NaN there).
DivRat(a, b) ==
  MulRat(a, IF b.n < 0 THEN [n |-> -b.d, d |-> -b.n] ELSE [n |-> b.d, d |-> b.n])

\* -1, 0, 1 as a/b <, =, > c/d, for a, c >= 0 and b, d > 0.  Compares the
\* integer parts, then the reciprocals of the fractional parts, so that no
\* product of two large numbers is ever formed.
RECURSIVE CmpPos(_, _, _, _)
CmpPos(a, b, c, d) ==
  LET q1 == a \div b
      q2 == c \div d
      r1 == a % b
      r2 == c % d
  IN  IF q1 < q2 THEN -1
      ELSE IF q1 > q2 THEN 1
      ELSE IF r1 = 0 /\ r2 = 0 THEN 0
      ELSE IF r1 = 0 THEN -1
      ELSE IF r2 = 0 THEN 1
      ELSE CmpPos(d, r2, b, r1)

CmpRat(x, y) ==
  IF x.n < 0 /\ y.n >= 0 THEN -1
  ELSE IF x.n >= 0 /\ y.n < 0 THEN 1
  ELSE IF x.n >= 0 THEN CmpPos(x.n, x.d, y.n, y.d)
  ELSE CmpPos(-y.n, y.d, -x.n, x.d)

LtRat(x, y) == CmpRat(x, y) < 0

LeRat(x, y) == CmpRat(x, y) <= 0

GtRat(x, y) == CmpRat(x, y) > 0

GeRat(x, y) == CmpRat(x, y) >= 0

\* x * y <= z.  The product in lowest terms can need more digits than the
\* integers of the model hold, so for x > 0 the equivalent y <= z / x is
\* evaluated (and y >= z / x for x < 0).
ProdLe(x, y, z) ==
  IF x.n > 0 THEN LeRat(y, DivRat(z, x))
  ELSE IF x.n < 0 THEN GeRat(y, DivRat(z, x))
  ELSE LeRat(Zero, z)

(***************************************************************************)
(* rc_param.rs: passive components and the E24 catalogue.                  *)
(***************************************************************************)
\* Resistor::new
Resistor(value, tolerance) == [value |-> value, tolerance |-> tolerance]

\* PassiveComponent::max
max(r) == MulRat(r.value, AddRat(One, r.tolerance))

\* PassiveComponent::min
min(r) == MulRat(r.value, SubRat(One, r.tolerance))

\* The E24 table, in tenths: E24[i] / 10 is the i-th value of the series.
E24 == <<10, 11, 12, 13, 15, 16, 18, 20, 22, 24, 27, 30, 33, 36, 39, 43, 47,
         51, 56, 62, 68, 75, 82, 91>>

\* Series::E24 = 1: the step of step_by.
SeriesE24 == 1

\* get_e_series_values: every step-th value of E24, starting with the first.
get_e_series_values(step) ==
  [i \in 1..((Len(E24) + step - 1) \div step) |-> Rat(E24[(i - 1) * step + 1], 10)]

\* expressions = 0u8..6u8: the exponents run from 0 up to, not including, this.
ExpressionsEnd == 6

RECURSIVE Pow10(_)
Pow10(e) == IF e = 0 THEN 1 ELSE 10 * Pow10(e - 1)

\* resistors_of_exp with the exponent taken one too high.
resistors_of_exp_shifted(e24, exp, tolerance) ==
  [i \in 1..Len(e24) |-> Resistor(MulRat(e24[i], Int2Rat(Pow10(exp + 1))), tolerance)]

\* The closure of the flat_map in get_resistor_list: the series scaled by
\* 10^exp, each value made a Resistor of the given tolerance.
resistors_of_exp(e24, exp, tolerance) ==
  [i \in 1..Len(e24) |-> Resistor(MulRat(e24[i], Int2Rat(Pow10(exp))), tolerance)]

RECURSIVE flat_map_exp(_, _, _)
flat_map_exp(e24, exp, tolerance) ==
  IF exp >= ExpressionsEnd THEN <<>>
  ELSE resistors_of_exp(e24, exp, tolerance) \o flat_map_exp(e24, exp + 1, tolerance)

\* get_resistor_list: for each exponent, in order, each series value, in order.
get_resistor_list(tolerance) ==
  flat_map_exp(get_e_series_values(SeriesE24), 0, tolerance)

(***************************************************************************)
(* main.rs: ranged values.                                                 *)
(***************************************************************************)
\* Voltage::new_by_values
new_by_values(value, vmin, vmax) == [value |-> value, min |-> vmin, max |-> vmax]

\* Voltage::new_by_allowance
new_by_allowance(value, allowance) ==
  [value |-> value,
   min   |-> MulRat(value, SubRat(One, allowance)),
   max   |-> MulRat(value, AddRat(One, allowance))]

\* RangedValue::new (Gain, and the current gain k of main)
RangedValue(value, vmin, vmax) == [value |-> value, min |-> vmin, max |-> vmax]

\* struct Constraint
Constraint(voltage, max_current) == [voltage |-> voltage, max_current |-> max_current]

(***************************************************************************)
(* main.rs: find_combinations.                                             *)
(***************************************************************************)
\* filter_r2 without the comparison of the current.
filter_r2_no_current(constraint, v_src, r1, r2) ==
  LET vref == MulRat(DivRat(r2.value, AddRat(r1.value, r2.value)), v_src.value)
  IN  /\ GeRat(vref, constraint.voltage.min)
      /\ LeRat(vref, constraint.voltage.max)

\* filter_r2 with r1_min written where r2_min belongs in the current.
filter_r2_r1_current(constraint, v_src, r1, r2) ==
  LET r1_min   == min(r1)
      max_curr == DivRat(v_src.value, AddRat(r1_min, r1_min))
      vref     == MulRat(DivRat(r2.value, AddRat(r1.value, r2.value)), v_src.value)
  IN  /\ LeRat(max_curr, constraint.max_current)
      /\ GeRat(vref, constraint.voltage.min)
      /\ LeRat(vref, constraint.voltage.max)

\* The filter closure: the worst-case current and the nominal output voltage
\* of the pair against the constraint.
filter_r2(constraint, v_src, r1, r2) ==
  LET r1_v     == r1.value
      r1_min   == min(r1)
      r2_v     == r2.value
      r2_min   == min(r2)
      max_curr == DivRat(v_src.value, AddRat(r1_min, r2_min))
      vref     == MulRat(DivRat(r2_v, AddRat(r1_v, r2_v)), v_src.value)
  IN  /\ LeRat(max_curr, constraint.max_current)
      /\ GeRat(vref, constraint.voltage.min)
      /\ LeRat(vref, constraint.voltage.max)

\* map_r2 with the ends of the source band exchanged.
map_r2_source_swapped(constraint, v_src, r1, r2) ==
  LET r     == DivRat(r2.value, AddRat(r1.value, r2.value))
      v_max == MulRat(DivRat(max(r2), AddRat(min(r1), max(r2))), v_src.min)
      v_min == MulRat(DivRat(min(r2), AddRat(max(r1), min(r2))), v_src.max)
      vref  == new_by_values(MulRat(r, v_src.value), v_min, v_max)
  IN  [r1 |-> r1, r2 |-> r2, vref |-> vref,
       vref_error |-> SubRat(vref.value, constraint.voltage.value)]

\* map_r2 with r1 at the same end as r2 in both corners.
map_r2_same_corner(constraint, v_src, r1, r2) ==
  LET r     == DivRat(r2.value, AddRat(r1.value, r2.value))
      v_max == MulRat(DivRat(max(r2), AddRat(max(r1), max(r2))), v_src.max)
      v_min == MulRat(DivRat(min(r2), AddRat(min(r1), min(r2))), v_src.min)
      vref  == new_by_values(MulRat(r, v_src.value), v_min, v_max)
  IN  [r1 |-> r1, r2 |-> r2, vref |-> vref,
       vref_error |-> SubRat(vref.value, constraint.voltage.value)]

\* The map closure: the CircuitParameters of an accepted pair.
map_r2(constraint, v_src, r1, r2) ==
  LET r1_v   == r1.value
      r1_min == min(r1)
      r1_max == max(r1)
      r2_v   == r2.value
      r2_min == min(r2)
      r2_max == max(r2)
      r      == DivRat(r2_v, AddRat(r1_v, r2_v))
      v_max  == MulRat(DivRat(r2_max, AddRat(r1_min, r2_max)), v_src.max)
      v_min  == MulRat(DivRat(r2_min, AddRat(r1_max, r2_min)), v_src.min)
      vref   == new_by_values(MulRat(r, v_src.value), v_min, v_max)
      err    == SubRat(vref.value, constraint.voltage.value)
  IN  [r1 |-> r1, r2 |-> r2, vref |-> vref, vref_error |-> err]

\* The closure of the outer flat_map: the accepted r2 for one r1, in
\* catalogue order.
flat_map_r1(constraint, v_src, resistors, r1) ==
  LET kept == SelectSeq(resistors, LAMBDA r2: filter_r2(constraint, v_src, r1, r2))
  IN  [j \in 1..Len(kept) |-> map_r2(constraint, v_src, r1, kept[j])]

\* The rows of resistors[lo..hi], concatenated in order.
RECURSIVE flat_map_rows(_, _, _, _, _)
flat_map_rows(constraint, v_src, resistors, lo, hi) ==
  IF lo > hi THEN <<>>
  ELSE IF lo = hi THEN flat_map_r1(constraint, v_src, resistors, resistors[lo])
  ELSE LET mid == (lo + hi) \div 2
       IN  flat_map_rows(constraint, v_src, resistors, lo, mid)
             \o flat_map_rows(constraint, v_src, resistors, mid + 1, hi)

\* `combinations` as collected, before the sort.
collect_combinations(constraint, v_src, resistors) ==
  flat_map_rows(constraint, v_src, resistors, 1, Len(resistors))

\* compare_error_then_sum with the error left unsquared.
compare_signed_error_then_sum(a, b) ==
  LET x  == a.vref_error
      y  == b.vref_error
      sa == AddRat(a.r1.value, a.r2.value)
      sb == AddRat(b.r1.value, b.r2.value)
  IN  IF GtRat(x, y) THEN "Greater"
      ELSE IF LtRat(x, y) THEN "Less"
      ELSE IF GtRat(sa, sb) THEN "Greater"
      ELSE IF LtRat(sa, sb) THEN "Less"
      ELSE "Equal"

\* The comparator of the sort in find_combinations: the squared error, then
\* the sum of the nominal resistances.
compare_error_then_sum(a, b) ==
  LET x  == MulRat(a.vref_error, a.vref_error)
      y  == MulRat(b.vref_error, b.vref_error)
      sa == AddRat(a.r1.value, a.r2.value)
      sb == AddRat(b.r1.value, b.r2.value)
  IN  IF GtRat(x, y) THEN "Greater"
      ELSE IF LtRat(x, y) THEN "Less"
      ELSE IF GtRat(sa, sb) THEN "Greater"
      ELSE IF LtRat(sa, sb) THEN "Less"
      ELSE "Equal"

\* The comparator of the sort in main: partial_cmp of the nominal output
\* currents.
compare_i_out(k, a, b) ==
  LET i_a == MulRat(k.value, a.vref.value)
      i_b == MulRat(k.value, b.vref.value)
      c   == CmpRat(i_a, i_b)
  IN  IF c < 0 THEN "Less" ELSE IF c > 0 THEN "Greater" ELSE "Equal"

\* A comparator closure handed to sort_unstable_by, applied: cmp.by names the
\* closure and cmp.k is the k the closure of main captures.
apply_compare(cmp, a, b) ==
  IF cmp.by = "error_then_sum"
  THEN compare_error_then_sum(a, b)
  ELSE compare_i_out(cmp.k, a, b)

(***************************************************************************)
(* slice::sort_unstable_by of the standard library, by its contract: the   *)
(* result is a permutation of the slice in the comparator's order, and     *)
(* elements that compare Equal come in an order that is not specified.     *)
(* The outcomes are built by insertion: each element may be put at any     *)
(* place among the elements it compares Equal to.                          *)
(***************************************************************************)
\* Lists of at most this length are sorted into every order the contract
\* allows; a longer list into two of them: equal elements in the order they
\* had, and equal elements in the opposite order.
MaxTieList == 8

insert_at(t, p, x) == SubSeq(t, 1, p) \o <<x>> \o SubSeq(t, p + 1, Len(t))

\* In the sorted t, the number of leading elements that compare c or lower
\* with x, searched in lo..hi (c = "Less": strictly lower; "Equal": lower or
\* equal).
RECURSIVE bound_of(_, _, _, _, _, _)
bound_of(t, x, cmp, c, lo, hi) ==
  IF lo >= hi THEN lo
  ELSE LET mid == (lo + hi + 1) \div 2
           o   == apply_compare(cmp, t[mid], x)
       IN  IF o = "Less" \/ (c = "Equal" /\ o = "Equal")
           THEN bound_of(t, x, cmp, c, mid, hi)
           ELSE bound_of(t, x, cmp, c, lo, mid - 1)

\* Every sorted order of the first n elements of s.
RECURSIVE sorted_orders(_, _, _)
sorted_orders(s, cmp, n) ==
  IF n = 0 THEN {<<>>}
  ELSE UNION {{insert_at(t, p, s[n]) :
                 p \in bound_of(t, s[n], cmp, "Less", 0, Len(t))
                       ..bound_of(t, s[n], cmp, "Equal", 0, Len(t))} :
              t \in sorted_orders(s, cmp, n - 1)}

\* s[lo..hi] inserted into the sorted t one by one, each after its equals
\* (c = "Equal") or each before its equals (c = "Less").
RECURSIVE insert_range(_, _, _, _, _, _)
insert_range(t, s, cmp, c, lo, hi) ==
  IF lo > hi THEN t
  ELSE IF lo = hi
       THEN insert_at(t, bound_of(t, s[lo], cmp, c, 0, Len(t)), s[lo])
       ELSE LET mid  == (lo + hi) \div 2
                left == insert_range(t, s, cmp, c, lo, mid)
            IN  IF Len(left) = Len(t) + (mid - lo + 1)
                THEN insert_range(left, s, cmp, c, mid + 1, hi)
                ELSE <<>>

\* The set of the results sort_unstable_by may leave in the slice.
sort_unstable_by(s, cmp) ==
  IF Len(s) <= MaxTieList
  THEN sorted_orders(s, cmp, Len(s))
  ELSE {insert_range(<<>>, s, cmp, c, 1, Len(s)) : c \in {"Equal", "Less"}}

\* find_combinations: the set of the lists it may return.
find_combinations(constraint, v_src, resistors) ==
  sort_unstable_by(collect_combinations(constraint, v_src, resistors),
                   [by |-> "error_then_sum"])

(***************************************************************************)
(* main.rs: main.                                                          *)
(***************************************************************************)
\* let i_out = 1.9f64
i_out == Rat(19, 10)

\* The current gain k: the gain over the sense resistor, corner by corner.
current_gain(resistor_tolerance) ==
  LET r_rs == Resistor(Rat(47, 100), resistor_tolerance)
      gain == RangedValue(DivRat(One, Int2Rat(5)),
                          DivRat(One, Rat(52, 10)),
                          DivRat(One, Rat(48, 10)))
  IN  RangedValue(DivRat(gain.value, r_rs.value),
                  DivRat(gain.min, max(r_rs)),
                  DivRat(gain.max, min(r_rs)))

\* reverse left out.
reverse_forgotten(s) == s

\* Vec::reverse
reverse(s) == [i \in 1..Len(s) |-> s[Len(s) + 1 - i]]

\* The two sums of the resistance filters.
low_resistance_floor == Int2Rat(10000)

high_resistance_ceiling == Int2Rat(120000)

\* The four filters of the chain, in order.
filter_vref_max(constraint, params) ==
  LeRat(params.vref.max, constraint.voltage.max)

filter_i_out(k, params) == ProdLe(k.max, params.vref.max, i_out)

filter_floor(params) ==
  GeRat(AddRat(min(params.r1), min(params.r2)), low_resistance_floor)

\* filter_ceiling with the minima summed.
filter_ceiling_of_min(params) ==
  LeRat(AddRat(min(params.r1), min(params.r2)), high_resistance_ceiling)

\* filter_ceiling left out.
filter_ceiling_absent(params) == TRUE

filter_ceiling(params) ==
  LeRat(AddRat(max(params.r1), max(params.r2)), high_resistance_ceiling)

\* .take(10)
TakeCount == 10

take(s, n) == SubSeq(s, 1, IF Len(s) < n THEN Len(s) ELSE n)

\* The iterator chain of the for loop, collected.
filter_and_take(constraint, k, combinations) ==
  LET f1 == SelectSeq(combinations, LAMBDA p: filter_vref_max(constraint, p))
      f2 == SelectSeq(f1, LAMBDA p: filter_i_out(k, p))
      f3 == SelectSeq(f2, LAMBDA p: filter_floor(p))
      f4 == SelectSeq(f3, LAMBDA p: filter_ceiling(p))
  IN  take(f4, TakeCount)

(***************************************************************************)
(* The state machine.  One run of the program: find_combinations, then the *)
(* re-sort of main, then the filter chain with take.                       *)
(***************************************************************************)
VARIABLES
  run,                 \* which inputs: "sample", "main", "scenario", "catalog"
  pc,                  \* where the run stands
  constraint,          \* let constraint
  vcc,                 \* let vcc, the v_src of find_combinations
  resistor_tolerance,  \* let resistor_tolerance
  resistors,           \* let resistors
  found,               \* the list find_combinations returned
  k,                   \* let k
  combinations,        \* let mut combinations
  selected             \* the Vec the for loop iterates

vars == <<run, pc, constraint, vcc, resistor_tolerance, resistors, found, k,
          combinations, selected>>

\* The catalogues of the sample runs are runs of at most this many
\* consecutive values of SampleValues.
MaxCatalogLen == 4

SampleValues == <<1000, 4700, 10000, 12000, 15000, 18000, 47000, 100000>>

SampleTolerances == {Zero, Rat(1, 100), Rat(1, 20)}

SampleCatalogs(tolerance) ==
  {[i \in 1..len |-> Resistor(Int2Rat(SampleValues[start + i - 1]), tolerance)] :
     <<start, len>> \in {w \in (1..Len(SampleValues)) \X (0..MaxCatalogLen) :
                           w[1] + w[2] - 1 <= Len(SampleValues)}}

\* The target of main; a wider target around half the source voltage with
\* twice the current; a current no pair of the samples can stay under.
SampleConstraints ==
  {Constraint(new_by_values(Int2Rat(2), Rat(1, 2), Int2Rat(4)), Rat(5, 10000)),
   Constraint(new_by_values(Rat(5, 2), Int2Rat(1), Rat(9, 2)), Rat(1, 1000)),
   Constraint(new_by_values(Int2Rat(2), Rat(1, 2), Int2Rat(4)), Rat(1, 1000000))}

\* 5 V with no allowance, 5 % and 25 %.
SampleSources ==
  {new_by_allowance(Int2Rat(5), a) : a \in {Zero, Rat(1, 20), Rat(1, 4)}}

Unset == "unset"

Start ==
  /\ pc = "start"
  /\ found = Unset
  /\ k = Unset
  /\ combinations = Unset
  /\ selected = Unset

\* find_combinations and main's filters on sample inputs.
Init ==
  /\ run = "sample"
  /\ constraint \in SampleConstraints
  /\ vcc \in SampleSources
  /\ resistor_tolerance \in SampleTolerances
  /\ resistors \in SampleCatalogs(resistor_tolerance)
  /\ Start

\* main.rs lines 206-214: the constants of main.
main_constraint ==
  Constraint(new_by_values(Int2Rat(2), Rat(1, 2), Int2Rat(4)), Rat(5, 10000))

main_vcc == new_by_allowance(Int2Rat(5), MulRat(Int2Rat(5), Rat(50, 1000)))

main_resistor_tolerance == Rat(1, 100)

InitOfMain ==
  /\ run = "main"
  /\ constraint = main_constraint
  /\ vcc = main_vcc
  /\ resistor_tolerance = main_resistor_tolerance
  /\ resistors = get_resistor_list(resistor_tolerance)
  /\ Start

\* The end-to-end scenario with the supply as the specification states it:
\* 5 V with an allowance of 5 %.
InitOfScenario ==
  /\ run = "scenario"
  /\ constraint = main_constraint
  /\ vcc = new_by_allowance(Int2Rat(5), Rat(5, 100))
  /\ resistor_tolerance = main_resistor_tolerance
  /\ resistors = get_resistor_list(resistor_tolerance)
  /\ Start

InitMain == Init \/ InitOfMain \/ InitOfScenario

\* let mut combinations = find_combinations(constraint, vcc, resistors)
FindCombinations ==
  /\ pc = "start"
  /\ \E s \in find_combinations(constraint, vcc, resistors) :
       /\ found' = s
       /\ combinations' = s
  /\ pc' = "found"
  /\ UNCHANGED <<run, constraint, vcc, resistor_tolerance, resistors, k, selected>>

\* main.rs lines 218-231: k, the sort by the nominal output current, reverse.
Rank ==
  /\ pc = "found"
  /\ k' = current_gain(resistor_tolerance)
  /\ \E s \in sort_unstable_by(combinations, [by |-> "i_out", k |-> k']) :
       combinations' = reverse(s)
  /\ pc' = "ranked"
  /\ UNCHANGED <<run, constraint, vcc, resistor_tolerance, resistors, found, selected>>

\* main.rs lines 233-240: the filters, take(10), collect.
Select ==
  /\ pc = "ranked"
  /\ selected' = filter_and_take(constraint, k, combinations)
  /\ pc' = "done"
  /\ UNCHANGED <<run, constraint, vcc, resistor_tolerance, resistors, found, k,
                 combinations>>

Next == FindCombinations \/ Rank \/ Select

Spec == Init /\ [][Next]_vars

SpecMain == InitMain /\ [][Next]_vars

(***************************************************************************)
(* get_resistor_list on its own, for a range of tolerances.                *)
(***************************************************************************)
\* The tolerances tried are 0, 1/1000, ..., MaxTolerance/1000.
MaxTolerance == 60

InitCatalog ==
  /\ run = "catalog"
  /\ pc = "catalog"
  /\ resistor_tolerance \in {Rat(t, 1000) : t \in 0..MaxTolerance}
  /\ resistors = <<>>
  /\ constraint = Unset
  /\ vcc = Unset
  /\ found = Unset
  /\ k = Unset
  /\ combinations = Unset
  /\ selected = Unset

GetResistorList ==
  /\ pc = "catalog"
  /\ resistors' = get_resistor_list(resistor_tolerance)
  /\ pc' = "catalog_done"
  /\ UNCHANGED <<run, constraint, vcc, resistor_tolerance, found, k, combinations,
                 selected>>

NextCatalog == GetResistorList

SpecCatalog == InitCatalog /\ [][NextCatalog]_vars

(***************************************************************************)
(* Properties.                                                             *)
(***************************************************************************)
Indices(s) == 1..Len(s)

\* The nominal divider output of r1 over r2 at source voltage v.
Divider(r1_v, r2_v, v) == MulRat(DivRat(r2_v, AddRat(r1_v, r2_v)), v)

InWindow(x) == GeRat(x, constraint.voltage.min) /\ LeRat(x, constraint.voltage.max)

CurrentOk(r1, r2) ==
  LeRat(DivRat(vcc.value, AddRat(min(r1), min(r2))), constraint.max_current)

HasPair(s, r1, r2) == \E i \in Indices(s) : s[i].r1 = r1 /\ s[i].r2 = r2

Catalogue == {resistors[i] : i \in Indices(resistors)}

\* C1: every element find_combinations returns has its nominal output
\* voltage inside the constraint's window and its worst-case current, the
\* source voltage over r1.min + r2.min, at or under the constraint's maximum.
C1_AcceptedMeetConstraint ==
  pc = "found" =>
    \A i \in Indices(found) :
      /\ InWindow(Divider(found[i].r1.value, found[i].r2.value, vcc.value))
      /\ CurrentOk(found[i].r1, found[i].r2)

\* Some pair is accepted, one is turned down for its current alone and one
\* for its voltage alone.
C1_Witness ==
  /\ pc = "found"
  /\ Len(found) > 0
  /\ \E r1 \in Catalogue, r2 \in Catalogue :
       /\ ~CurrentOk(r1, r2)
       /\ InWindow(Divider(r1.value, r2.value, vcc.value))
       /\ ~HasPair(found, r1, r2)
  /\ \E r1 \in Catalogue, r2 \in Catalogue :
       /\ CurrentOk(r1, r2)
       /\ ~InWindow(Divider(r1.value, r2.value, vcc.value))
       /\ ~HasPair(found, r1, r2)

\* A candidate that passes the four filters of main.
Survivor(c) ==
  /\ LeRat(c.vref.max, constraint.voltage.max)
  /\ LeRat(c.vref.max, DivRat(Rat(19, 10), k.max))
  /\ GeRat(AddRat(min(c.r1), min(c.r2)), Int2Rat(10000))
  /\ LeRat(AddRat(max(c.r1), max(c.r2)), Int2Rat(120000))

SurvivorIndices == {i \in Indices(combinations) : Survivor(combinations[i])}

MinOf(a, b) == IF a < b THEN a ELSE b

\* C2: the list main iterates is the first min(10, number of survivors)
\* survivors of the four filters, in the order the re-sorted list has them,
\* none skipped and none reordered.
C2_SelectedAreFirstSurvivors ==
  pc = "done" =>
    LET S == SurvivorIndices
    IN  /\ Len(selected) = MinOf(10, Cardinality(S))
        /\ \A j \in Indices(selected) :
             \E i \in S :
               /\ Cardinality({h \in S : h <= i}) = j
               /\ selected[j] = combinations[i]

\* More than ten survive, and a candidate that does not survive stands
\* before one that does and is selected.
C2_Witness ==
  /\ pc = "done"
  /\ Len(selected) = 10
  /\ LET S == SurvivorIndices
     IN  /\ Cardinality(S) > 10
         /\ \E i \in Indices(combinations) \ S :
              \E j \in S : i < j /\ selected[Cardinality({h \in S : h <= j})] = combinations[j]

Count(s, x) == Cardinality({i \in Indices(s) : s[i] = x})

IsPermutation(s, t) ==
  /\ Len(s) = Len(t)
  /\ \A i \in Indices(s) : Count(s, s[i]) = Count(t, s[i])

NominalCurrent(c) == MulRat(k.value, c.vref.value)

\* C3: after the re-sort of main the list is a permutation of the list
\* find_combinations returned, and a candidate with a greater
\* k.typical * vref.typical stands before every candidate with a smaller one.
C3_RankedDescending ==
  pc = "ranked" =>
    /\ IsPermutation(combinations, found)
    /\ \A i \in Indices(combinations), j \in Indices(combinations) :
         GtRat(NominalCurrent(combinations[i]), NominalCurrent(combinations[j]))
           => i < j

\* The re-sort moved two candidates of different output current past each
\* other.
C3_Witness ==
  /\ pc = "ranked"
  /\ \E i \in Indices(found), j \in Indices(found) :
       /\ i < j
       /\ GtRat(NominalCurrent(found[j]), NominalCurrent(found[i]))

AbsRat(x) == IF x.n < 0 THEN NegRat(x) ELSE x

Square(x) == MulRat(x, x)

NominalSum(c) == AddRat(c.r1.value, c.r2.value)

\* C4: in the list find_combinations returns, of two candidates with
\* nonzero error the one with the smaller |vref_error| stands first, and of
\* two with equal squared error the one with the smaller r1 + r2 stands
\* first.
C4_SortedByErrorThenSum ==
  pc = "found" =>
    \A i \in Indices(found), j \in Indices(found) :
      /\ ( /\ found[i].vref_error # Zero
           /\ found[j].vref_error # Zero
           /\ LtRat(AbsRat(found[i].vref_error), AbsRat(found[j].vref_error)) )
         => i < j
      /\ ( /\ Square(found[i].vref_error) = Square(found[j].vref_error)
           /\ LtRat(NominalSum(found[i]), NominalSum(found[j])) )
         => i < j

\* The sort had to move a candidate with a smaller error in front of one
\* collected before it, and two candidates tie on the squared error with
\* different sums.
C4_Witness ==
  /\ pc = "found"
  /\ LET c == collect_combinations(constraint, vcc, resistors)
     IN  \E i \in Indices(c), j \in Indices(c) :
           /\ i < j
           /\ c[i].vref_error # Zero /\ c[j].vref_error # Zero
           /\ LtRat(AbsRat(c[j].vref_error), AbsRat(c[i].vref_error))
  /\ \E i \in Indices(found), j \in Indices(found) :
       /\ Square(found[i].vref_error) = Square(found[j].vref_error)
       /\ LtRat(NominalSum(found[i]), NominalSum(found[j]))

MinSumOk(c) == GeRat(AddRat(min(c.r1), min(c.r2)), Int2Rat(10000))

MaxSumOk(c) == LeRat(AddRat(max(c.r1), max(c.r2)), Int2Rat(120000))

\* C5: the end-to-end run (target 2.0 in 0.5..4.0, supply 5.0, maximum
\* current 5e-4, tolerance 1 %, the 144-value catalogue) selects at least one
\* pair, and every selected pair has r1.min + r2.min >= 10e3,
\* r1.max + r2.max <= 120e3 and a nominal Vref in 0.5..4.0.  Stated for the
\* supply main builds and for the 5 % supply the scenario names.
C5_EndToEnd ==
  (run \in {"main", "scenario"} /\ pc = "done") =>
    /\ Len(selected) > 0
    /\ \A i \in Indices(selected) :
         /\ MinSumOk(selected[i])
         /\ MaxSumOk(selected[i])
         /\ GeRat(selected[i].vref.value, Rat(1, 2))
         /\ LeRat(selected[i].vref.value, Int2Rat(4))

\* The run of main has selected its ten pairs from the 1908 candidates of
\* the full catalogue.
C5_Witness ==
  /\ run = "main"
  /\ pc = "done"
  /\ Len(resistors) = 144
  /\ Len(combinations) > Len(selected)
  /\ Len(selected) = 10

\* C6, as claimed: whenever (r1, r2) is accepted, (r2, r1) is accepted too
\* unless (r2, r1) fails the max_current check.
C6_SwappedUnlessCurrent ==
  pc = "found" =>
    \A i \in Indices(found) :
      CurrentOk(found[i].r2, found[i].r1) => HasPair(found, found[i].r2, found[i].r1)

\* C6, amended: whenever (r1, r2) is accepted, (r2, r1) is accepted too
\* unless the nominal output voltage of (r2, r1) is outside the
\* constraint's window; the current check never separates the two.
C6_SwappedUnlessWindow ==
  pc = "found" =>
    \A i \in Indices(found) :
      InWindow(Divider(found[i].r2.value, found[i].r1.value, vcc.value))
        => HasPair(found, found[i].r2, found[i].r1)

\* One accepted pair has its swap accepted, another has not.
C6_Witness ==
  /\ pc = "found"
  /\ \E i \in Indices(found) :
       /\ found[i].r1 # found[i].r2
       /\ HasPair(found, found[i].r2, found[i].r1)
  /\ \E i \in Indices(found) : ~HasPair(found, found[i].r2, found[i].r1)

\* Further sources to compare with: bands that are not symmetric, one of
\* them reaching below zero.
OtherSources ==
  {new_by_values(Int2Rat(5), Rat(9, 2), Rat(21, 4)),
   new_by_values(Int2Rat(5), Zero, Int2Rat(10)),
   new_by_values(Int2Rat(5), Int2Rat(-1), Int2Rat(7))}

\* The sources with the typical value of vcc and a band at least as wide.
WiderSources ==
  {v \in SampleSources \cup OtherSources :
     v.value = vcc.value /\ LeRat(v.min, vcc.min) /\ GeRat(v.max, vcc.max)}

\* C7: with the typical source voltage fixed, a source band at least as wide
\* gives the same accepted pairs, and for each of them a vref band at least
\* as wide.
C7_WiderSourceWiderBand ==
  pc = "found" =>
    \A v \in WiderSources :
      LET other == collect_combinations(constraint, v, resistors)
      IN  /\ Len(other) = Len(found)
          /\ \A i \in Indices(found) :
               \E j \in Indices(other) :
                 /\ other[j].r1 = found[i].r1
                 /\ other[j].r2 = found[i].r2
                 /\ LeRat(other[j].vref.min, found[i].vref.min)
                 /\ GeRat(other[j].vref.max, found[i].vref.max)

\* Pairs are accepted, and a strictly wider source is among the samples.
C7_Witness ==
  /\ pc = "found"
  /\ Len(found) > 0
  /\ \E v \in WiderSources : LtRat(v.min, vcc.min) /\ GtRat(v.max, vcc.max)

\* C8, as claimed: the supply main passes to find_combinations is 5.0 with
\* min 4.75 and max 5.25.
C8_SupplyIsFivePercent ==
  run = "main" =>
    /\ vcc.value = Int2Rat(5)
    /\ vcc.min = Rat(475, 100)
    /\ vcc.max = Rat(525, 100)

\* C9: get_resistor_list(t) returns 144 resistors, the one at index
\* 24 * d + i being E24[i] * 10^d with tolerance t, min = value * (1 - t) and
\* max = value * (1 + t).  (Sequences here start at 1.)
C9_CatalogueLayout ==
  pc = "catalog_done" =>
    /\ Len(resistors) = 144
    /\ \A d \in 0..5, i \in 0..23 :
         LET r == resistors[24 * d + i + 1]
             v == Rat(E24[i + 1] * Pow10(d), 10)
         IN  /\ r.value = v
             /\ r.tolerance = resistor_tolerance
             /\ min(r) = MulRat(v, SubRat(One, resistor_tolerance))
             /\ max(r) = MulRat(v, AddRat(One, resistor_tolerance))

\* The catalogue of a nonzero tolerance has been built.
C9_Witness ==
  /\ pc = "catalog_done"
  /\ resistor_tolerance # Zero
  /\ Len(resistors) > 24

\* The points tried in each interval are its ends and the GridSteps - 1
\* points that divide it evenly.
GridSteps == 2

Grid(lo, hi) ==
  {AddRat(lo, MulRat(Rat(g, GridSteps), SubRat(hi, lo))) : g \in 0..GridSteps}

\* C10: for positive resistor values, a tolerance in [0, 1) and
\* 0 <= v_src.min <= v_src.typical <= v_src.max, every divider output
\* b / (a + b) * v with a in r1's interval, b in r2's and v in v_src's lies
\* in the candidate's [vref.min, vref.max]; so does vref.typical.
C10_BandIsWorstCase ==
  ( /\ pc = "found"
    /\ GeRat(resistor_tolerance, Zero) /\ LtRat(resistor_tolerance, One)
    /\ GeRat(vcc.min, Zero) /\ LeRat(vcc.min, vcc.value) /\ LeRat(vcc.value, vcc.max)
    /\ \A r \in Catalogue : GtRat(r.value, Zero) ) =>
    \A i \in Indices(found) :
      LET c == found[i]
      IN  /\ LeRat(c.vref.min, c.vref.value)
          /\ LeRat(c.vref.value, c.vref.max)
          /\ \A a \in Grid(min(c.r1), max(c.r1)), b \in Grid(min(c.r2), max(c.r2)),
                v \in Grid(vcc.min, vcc.max) :
               /\ LeRat(c.vref.min, Divider(a, b, v))
               /\ LeRat(Divider(a, b, v), c.vref.max)

\* A pair is accepted whose resistors and source all have a proper interval.
C10_Witness ==
  /\ pc = "found"
  /\ Len(found) > 0
  /\ GtRat(resistor_tolerance, Zero)
  /\ LtRat(vcc.min, vcc.max)
  /\ LtRat(found[1].vref.min, found[1].vref.value)
  /\ LtRat(found[1].vref.value, found[1].vref.max)

====
